---- MODULE Spec2Model ----
(***************************************************************************)
(* RoomTypeLocationProvider (src/providers/room_type_location_provider.py) *)
(* as a state machine: the provider object's fields, the background task   *)
(* running _run, and the callers of start(), stop() and of a direct        *)
(* _process_room_type().                                                    *)
(*                                                                         *)
(* Spec is the provider under sequential calls of its API; LiveSpec adds   *)
(* the scheduler's fairness.  ScenarioASpec and ScenarioBSpec run the task *)
(* on the two feeds of the specification's scenarios, WindowSpec runs one  *)
(* cycle from every window the provider can hold, and ConcSpec lets two    *)
(* caller threads call the API concurrently.                               *)
(*                                                                         *)
(* Text is a sequence of one-character strings, so that strip() and        *)
(* lower() are computed.  Time is an integer number of seconds read from a *)
(* non-decreasing clock.                                                   *)
(***************************************************************************)
EXTENDS Integers, Sequences, FiniteSets, TLC

(* ---------------------------------------------------------------- bounds *)

\* The clock stops advancing at MaxTime.
MaxTime == 7

\* Background tasks ever created by start().
MaxThreads == 2

\* A cycle takes a sample when the window it leaves holds at most MaxHistory.
MaxHistory == 4

\* The clock of the specification with fairness stops at LiveMaxTime.
LiveMaxTime == 3

\* refresh_interval is drawn from 1..MaxRefresh at construction.
MaxRefresh == 2

\* The clock of the scenarios stops at ScenarioMaxTime.
ScenarioMaxTime == 36

\* The windows of the one-cycle specification are drawn with a clock of at most
\* WindowMaxTime.
WindowMaxTime == 8

\* The drawn windows hold at most WindowMaxLen samples.
WindowMaxLen == 3

\* The clock of the specification with concurrent callers stops at ConcMaxTime.
ConcMaxTime == 3

\* With concurrent callers a cycle takes a sample when the window it leaves
\* holds at most ConcMaxHistory.
ConcMaxHistory == 3

\* In the scenarios the interval wait returns at most MaxOverrun seconds late.
MaxOverrun == 1

(* ------------------------------------------------------------------ text *)

UpperChars ==
    <<"A", "B", "C", "D", "E", "F", "G", "H", "I", "J", "K", "L", "M",
      "N", "O", "P", "Q", "R", "S", "T", "U", "V", "W", "X", "Y", "Z">>

LowerChars ==
    <<"a", "b", "c", "d", "e", "f", "g", "h", "i", "j", "k", "l", "m",
      "n", "o", "p", "q", "r", "s", "t", "u", "v", "w", "x", "y", "z">>

Whitespace == {" ", "\t", "\n"}

LowerChar(c) ==
    IF \E i \in 1..Len(UpperChars) : UpperChars[i] = c
    THEN LowerChars[CHOOSE i \in 1..Len(UpperChars) : UpperChars[i] = c]
    ELSE c

\* str.lower()
Lower(s) == [i \in 1..Len(s) |-> LowerChar(s[i])]

RECURSIVE LStrip(_)
LStrip(s) ==
    IF s # <<>> /\ Head(s) \in Whitespace THEN LStrip(Tail(s)) ELSE s

RECURSIVE RStrip(_)
RStrip(s) ==
    IF s # <<>> /\ s[Len(s)] \in Whitespace
    THEN RStrip(SubSeq(s, 1, Len(s) - 1))
    ELSE s

\* str.strip()
Strip(s) == RStrip(LStrip(s))

\* room_type.strip().lower()
Normalize(s) == Lower(Strip(s))

LIVING_ROOM == <<"l", "i", "v", "i", "n", "g", "_", "r", "o", "o", "m">>
BEDROOM == <<"b", "e", "d", "r", "o", "o", "m">>
STUDY == <<"s", "t", "u", "d", "y">>
KITCHEN == <<"k", "i", "t", "c", "h", "e", "n">>
OUTDOOR == <<"o", "u", "t", "d", "o", "o", "r">>
GARAGE == <<"g", "a", "r", "a", "g", "e">>

\* self._allowed_room_types
allowed_room_types == {LIVING_ROOM, BEDROOM, STUDY, KITCHEN, OUTDOOR}

(* ------------------------------------------------- the Variable Source *)

\* What io_provider.get_dynamic_variable("room_type") can do in one call:
\*   read_raises      the call raises
\*   none             the variable is unset (None)
\*   str              a str, text is its value
\*   obj              a truthy non-str object, text is what str() gives
\*   obj_falsy        a falsy non-str object (0, False, an empty list)
\*   obj_bool_raises  an object whose truth test raises
RawValue(kind, text) == [kind |-> kind, text |-> text]

RawInputs ==
    { RawValue("read_raises", <<>>),
      RawValue("none", <<>>),
      RawValue("str", <<>>),
      RawValue("str", KITCHEN),
      RawValue("str", BEDROOM),
      RawValue("str", <<" ", "K", "i", "t", "c", "h", "e", "n", "\n">>),
      RawValue("str", <<"B", "E", "D", "R", "O", "O", "M">>),
      RawValue("str", GARAGE),
      RawValue("obj", <<"K", "I", "T", "C", "H", "E", "N", " ">>),
      RawValue("obj_falsy", <<"0">>),
      RawValue("obj_bool_raises", <<>>) }

\* bool(room_type), for the inputs whose truth test returns
Truthy(raw) ==
    CASE raw.kind = "none" -> FALSE
      [] raw.kind = "str" -> raw.text # <<>>
      [] raw.kind = "obj" -> TRUE
      [] raw.kind = "obj_falsy" -> FALSE
      [] OTHER -> FALSE

\* The outcome of _get_current_room_type: raised (the exception leaves the
\* function), or a value, None with the reason for it:
\*   read_error  the read raised and was logged (lines 130-132)
\*   unset       the value is falsy (lines 134-135)
\*   rejected    the normalised value is not an allowed label (lines 143-148)
Value(val) == [raised |-> FALSE, some |-> TRUE, val |-> val, why |-> "value"]
None(why) == [raised |-> FALSE, some |-> FALSE, val |-> <<>>, why |-> why]
Raised == [raised |-> TRUE, some |-> FALSE, val |-> <<>>, why |-> "raised"]

\* The whitelist test dropped.
GetCurrentRoomTypeNoWhitelist(raw) ==
    IF raw.kind = "read_raises" THEN None("read_error")
    ELSE IF raw.kind = "obj_bool_raises" THEN Raised
    ELSE IF ~Truthy(raw) THEN None("unset")
    ELSE Value(Normalize(raw.text))

\* _get_current_room_type, lines 128-150
GetCurrentRoomType(raw) ==
    IF raw.kind = "read_raises" THEN None("read_error")
    ELSE IF raw.kind = "obj_bool_raises" THEN Raised
    ELSE IF ~Truthy(raw) THEN None("unset")
    ELSE IF Normalize(raw.text) \notin allowed_room_types
         THEN None("rejected")
         ELSE Value(Normalize(raw.text))

(* -------------------------------------------------- window and smoothing *)

\* self._room_window_seconds = refresh_interval * 6
room_window_seconds(ri) == ri * 6

\* The stability period taken as long as the window.
room_min_stable_seconds_short(ri) == ri * 2

\* self._room_min_stable_seconds = refresh_interval * 3
room_min_stable_seconds(ri) == ri * 3

\* self._room_majority_threshold = 0.7, as the fraction ThresholdNum/ThresholdDen
ThresholdNum == 7
ThresholdDen == 10

\* The prune loop with <= in place of <.
RECURSIVE PruneInclusive(_, _)
PruneInclusive(h, cutoff) ==
    IF h # <<>> /\ h[1][1] <= cutoff THEN PruneInclusive(Tail(h), cutoff) ELSE h

\* The prune loop run once: an if in place of the while.
PruneOnce(h, cutoff) ==
    IF h # <<>> /\ h[1][1] < cutoff THEN Tail(h) ELSE h

\* while self._room_history and self._room_history[0][0] < cutoff: popleft()
RECURSIVE Prune(_, _)
Prune(h, cutoff) ==
    IF h # <<>> /\ h[1][1] < cutoff THEN Prune(Tail(h), cutoff) ELSE h

\* counts[l] of Counter(rt for _, rt in self._room_history)
Count(h, l) == Cardinality({i \in 1..Len(h) : h[i][2] = l})

\* The keys of the Counter in their insertion order: each label at its first
\* occurrence in the window.
FirstSeen(h) ==
    LET firsts == {i \in 1..Len(h) : \A j \in 1..(i - 1) : h[j][2] # h[i][2]}
        RECURSIVE Build(_)
        Build(k) ==
            IF k > Len(h) THEN <<>>
            ELSE IF k \in firsts THEN <<h[k][2]>> \o Build(k + 1)
            ELSE Build(k + 1)
    IN  Build(1)

\* The label of the newest sample, whatever the counts.
WinnerNewest(h) == h[Len(h)][2]

\* counts.most_common(1)[0][0]: the first key, in insertion order, whose count
\* is the largest (h is not empty).
Winner(h) ==
    LET keys == FirstSeen(h)
        best == CHOOSE i \in 1..Len(keys) :
                    /\ \A j \in 1..Len(keys) : Count(h, keys[j]) <= Count(h, keys[i])
                    /\ \A j \in 1..(i - 1) : Count(h, keys[j]) < Count(h, keys[i])
    IN  keys[best]

\* A bare plurality accepted.
MajorityReachedHalf(winner_count, total) == ~(winner_count * 2 < total)

\* not (winner_count / float(total) < 0.7).  The quotient of two small
\* integers is below the double 0.7 exactly when it is below 7/10.
MajorityReached(winner_count, total) ==
    ~(winner_count * ThresholdDen < ThresholdNum * total)

\* The newest occurrence of the winner taken for the first.
StableSecondsNewest(h, winner, now) ==
    LET ts == {h[i][1] : i \in {j \in 1..Len(h) : h[j][2] = winner}}
    IN  now - (CHOOSE m \in ts : \A u \in ts : u <= m)

\* now - min(ts for ts, rt in self._room_history if rt == winner)
StableSeconds(h, winner, now) ==
    LET ts == {h[i][1] : i \in {j \in 1..Len(h) : h[j][2] = winner}}
    IN  now - (CHOOSE m \in ts : \A u \in ts : m <= u)

\* The gate left open.
AlreadyPostedNever(label, posted) == FALSE

\* smoothed_room_type in self._posted_room_types
AlreadyPosted(label, posted) == label \in posted

\* 300 taken for a success.
IsSuccessInclusive(code) == 200 <= code /\ code <= 300

\* 200 <= resp.status_code < 300
IsSuccess(code) == 200 <= code /\ code < 300

(* ----------------------------------------------------------- one cycle *)

NoPayload == [label |-> <<>>, winner_count |-> 0, total |-> 0, stable_seconds |-> 0]

\* What one run of _process_room_type does up to the POST:
\*   raised   an exception leaves the function
\*   read     the Variable Source was called
\*   history  the window it leaves
\*   result   where it returned ("read_error", "unset" and "rejected" are the
\*            ways of having no sample), "posting" when it goes on to the POST
\*   payload  the label and the figures of the payload
CycleResult(raised, read, history, result, payload) ==
    [raised |-> raised, read |-> read, history |-> history,
     result |-> result, payload |-> payload]

\* The vote over the pruned window h at time now (lines 175-219).
Vote(h, posted, now, ri) ==
    IF h = <<>> THEN CycleResult(FALSE, TRUE, h, "empty_window", NoPayload)
    ELSE
    LET winner == Winner(h)
        winner_count == Count(h, winner)
        total == Len(h)
        stable_seconds == StableSeconds(h, winner, now)
    IN  IF ~MajorityReached(winner_count, total)
        THEN CycleResult(FALSE, TRUE, h, "no_majority", NoPayload)
        ELSE IF stable_seconds < room_min_stable_seconds(ri)
        THEN CycleResult(FALSE, TRUE, h, "not_stable", NoPayload)
        ELSE IF AlreadyPosted(winner, posted)
        THEN CycleResult(FALSE, TRUE, h, "already_posted", NoPayload)
        ELSE CycleResult(FALSE, TRUE, h, "posting",
                         [label |-> winner, winner_count |-> winner_count,
                          total |-> total, stable_seconds |-> stable_seconds])

\* The vote taken over the window as it is when the cycle has no sample.
ProcessRoomTypeVotesAnyway(url, raw, now, hist, posted, ri) ==
    IF url = "" THEN CycleResult(FALSE, FALSE, hist, "no_url", NoPayload)
    ELSE
    LET got == GetCurrentRoomType(raw)
    IN  IF got.raised THEN CycleResult(TRUE, TRUE, hist, "raised", NoPayload)
        ELSE IF ~got.some THEN Vote(hist, posted, now, ri)
        ELSE Vote(Prune(Append(hist, <<now, got.val>>), now - room_window_seconds(ri)),
                  posted, now, ri)

\* The cycle without its base_url test.
ProcessRoomTypeNoUrlTest(url, raw, now, hist, posted, ri) ==
    LET got == GetCurrentRoomType(raw)
    IN  IF got.raised THEN CycleResult(TRUE, TRUE, hist, "raised", NoPayload)
        ELSE IF ~got.some THEN CycleResult(FALSE, TRUE, hist, got.why, NoPayload)
        ELSE Vote(Prune(Append(hist, <<now, got.val>>), now - room_window_seconds(ri)),
                  posted, now, ri)

\* _process_room_type, lines 156-219
ProcessRoomType(url, raw, now, hist, posted, ri) ==
    IF url = "" THEN CycleResult(FALSE, FALSE, hist, "no_url", NoPayload)
    ELSE
    LET got == GetCurrentRoomType(raw)
    IN  IF got.raised THEN CycleResult(TRUE, TRUE, hist, "raised", NoPayload)
        ELSE IF ~got.some THEN CycleResult(FALSE, TRUE, hist, got.why, NoPayload)
        ELSE Vote(Prune(Append(hist, <<now, got.val>>), now - room_window_seconds(ri)),
                  posted, now, ri)

\* What requests.post can do: answer with a status, time out, or fail.
Statuses == {199, 200, 299, 300, 500}

PostOutcomes ==
    {[kind |-> "status", code |-> c] : c \in Statuses}
        \cup {[kind |-> "timeout", code |-> 0], [kind |-> "error", code |-> 0]}

\* The delivery counts when the response is a 2xx (lines 229-235).
Delivered(outcome) == outcome.kind = "status" /\ IsSuccess(outcome.code)

(* ----------------------------------------------------------- the state *)

VARIABLES
    base_url,            \* self.base_url ("" when the endpoint is missing)
    refresh_interval,    \* self.refresh_interval
    stop_event,          \* self._stop_event is set
    thread,              \* self._thread: a task of Threads, 0 for None
    room_history,        \* self._room_history: <<timestamp, label>> oldest first
    posted_room_types,   \* self._posted_room_types
    clock,               \* what time.time() returns
    pc,                  \* where each task and each caller stands
    payload,             \* the payload a context is about to POST
    wake_at,             \* when a task's interval wait times out
    saw_stop,            \* the task's last wait returned with the signal set
    ok_posts,            \* labels a POST of which was answered 2xx
    failed_posts,        \* labels a POST of which failed
    last                 \* the cycle in progress: did it read, where it returned,
                         \* how many samples its prune dropped, how many POSTs
                         \* it made

vars ==
    <<base_url, refresh_interval, stop_event, thread, room_history,
      posted_room_types, clock, pc, payload, wake_at, saw_stop, ok_posts,
      failed_posts, last>>

\* Background tasks are numbered from 1, in the order start() creates them.
Threads == 1..MaxThreads

\* The tasks start() has not created yet
Unborn == {t \in Threads : pc[t] = "unborn"}

\* The threads that call start(), stop() and _process_room_type.
Callers == {-1, -2}

\* The caller of the sequential use of the API.
MainCallers == {-1}

Contexts == Threads \cup Callers

DefaultUrl == "http://localhost:5000/maps/locations/add/slam"

\* threading.Thread.is_alive(): started and _run has not returned
Alive(p) == p \in {"loop", "proc", "post", "cycle_end", "wait"}

AliveThreads == {t \in Threads : Alive(pc[t])}

NoCycle == [read |-> FALSE, result |-> "none", pruned |-> 0, posts |-> 0]

\* The provider as __init__ leaves it, constructed with base_url url and
\* refresh_interval ri (lines 42-72); no task exists and no call is in progress.
InitWith(url, ri) ==
    /\ base_url = url
    /\ refresh_interval = ri
    /\ stop_event = FALSE
    /\ thread = 0
    /\ room_history = <<>>
    /\ posted_room_types = {}
    /\ clock = 0
    /\ pc = [x \in Contexts |-> IF x \in Threads THEN "unborn" ELSE "idle"]
    /\ payload = [x \in Contexts |-> NoPayload]
    /\ wake_at = [t \in Threads |-> 0]
    /\ saw_stop = [t \in Threads |-> FALSE]
    /\ ok_posts = {}
    /\ failed_posts = {}
    /\ last = NoCycle

Init == \E url \in {"", DefaultUrl}, ri \in 1..MaxRefresh : InitWith(url, ri)

\* Where a context can stay for a time the clock shows: a task in its interval
\* wait, a caller between calls or in the join.  Every other step takes no
\* time at the clock's resolution (the wait may overrun by any amount).
Resting(p) == p \in {"unborn", "wait", "done", "idle", "stop_join"}

\* One second passes.
Advance ==
    /\ \A x \in Contexts : Resting(pc[x])
    /\ clock' = clock + 1
    /\ UNCHANGED <<base_url, refresh_interval, stop_event, thread, room_history,
                   posted_room_types, pc, payload, wake_at, saw_stop, ok_posts,
                   failed_posts, last>>

\* time passes, up to MaxTime
Tick == clock < MaxTime /\ Advance

(* ------------------------------------------------------ start() and stop() *)

\* One call of the API at a time: a caller begins a call when no call is
\* in progress.
NoCallInProgress == \A c \in Callers : pc[c] = "idle"

\* The running test never made.
AlreadyRunningNever(thr, pcs) == FALSE

\* self._thread and self._thread.is_alive()
AlreadyRunning(thr, pcs) == thr # 0 /\ Alive(pcs[thr])

\* start(), lines 78-87: the two early returns; otherwise go on to line 89.
StartEnter(c) ==
    /\ pc[c] = "idle"
    /\ \/ AlreadyRunning(thread, pc)
       \/ base_url = ""
       \/ Unborn # {}
    /\ pc' = [pc EXCEPT ![c] = IF AlreadyRunning(thread, pc) THEN "start_warn"
                               ELSE IF base_url = "" THEN "start_error"
                               ELSE "start_clear"]
    /\ UNCHANGED <<base_url, refresh_interval, stop_event, thread, room_history,
                   posted_room_types, clock, payload, wake_at, saw_stop,
                   ok_posts, failed_posts, last>>

\* start() called when no call is in progress
StartCheck(c) == NoCallInProgress /\ StartEnter(c)

\* start(), lines 80 and 87: the early returns
StartReturn(c) ==
    /\ pc[c] \in {"start_warn", "start_error"}
    /\ pc' = [pc EXCEPT ![c] = "idle"]
    /\ UNCHANGED <<base_url, refresh_interval, stop_event, thread, room_history,
                   posted_room_types, clock, payload, wake_at, saw_stop,
                   ok_posts, failed_posts, last>>

\* start(), line 89
StartClear(c) ==
    /\ pc[c] = "start_clear"
    /\ stop_event' = FALSE
    /\ pc' = [pc EXCEPT ![c] = "start_spawn"]
    /\ UNCHANGED <<base_url, refresh_interval, thread, room_history,
                   posted_room_types, clock, payload, wake_at, saw_stop,
                   ok_posts, failed_posts, last>>

\* start(), lines 90-91: the new task stands at the loop condition
StartSpawn(c) ==
    /\ pc[c] = "start_spawn"
    /\ \E t \in Unborn :
        /\ \A u \in Unborn : t <= u
        /\ thread' = t
        /\ pc' = [pc EXCEPT ![c] = "idle", ![t] = "loop"]
    /\ UNCHANGED <<base_url, refresh_interval, stop_event, room_history,
                   posted_room_types, clock, payload, wake_at, saw_stop,
                   ok_posts, failed_posts, last>>

\* stop(), line 101
StopSignal(c) ==
    /\ pc[c] = "idle"
    /\ stop_event' = TRUE
    /\ pc' = [pc EXCEPT ![c] = "stop_join"]
    /\ UNCHANGED <<base_url, refresh_interval, thread, room_history,
                   posted_room_types, clock, payload, wake_at, saw_stop,
                   ok_posts, failed_posts, last>>

\* stop() called when no call is in progress
StopSet(c) == NoCallInProgress /\ StopSignal(c)

\* stop(), lines 102-104: join(timeout=5) returns when the task has ended, or
\* after 5 s with the task still inside its blocking read or POST.
StopJoin(c) ==
    /\ pc[c] = "stop_join"
    /\ IF thread = 0 THEN TRUE
       ELSE ~Alive(pc[thread]) \/ pc[thread] \in {"proc", "post"}
    /\ pc' = [pc EXCEPT ![c] = "idle"]
    /\ UNCHANGED <<base_url, refresh_interval, stop_event, thread, room_history,
                   posted_room_types, clock, payload, wake_at, saw_stop,
                   ok_posts, failed_posts, last>>

(* ------------------------------------------------------ the background task *)

\* The loop entered whatever the signal.
LoopNextIgnoresStop(stop) == "proc"

\* while not self._stop_event.is_set(): run a cycle, or leave _run
LoopNext(stop) == IF stop THEN "done" ELSE "proc"

\* _run, line 110: the loop condition
LoopCheck(t) ==
    /\ pc[t] = "loop"
    /\ pc' = [pc EXCEPT ![t] = LoopNext(stop_event)]
    /\ saw_stop' = [saw_stop EXCEPT ![t] = FALSE]
    /\ UNCHANGED <<base_url, refresh_interval, stop_event, thread, room_history,
                   posted_room_types, clock, payload, wake_at, ok_posts,
                   failed_posts, last>>

\* An exception of the cycle ends the task.
AfterRaiseDies(x) == IF x \in Threads THEN "done" ELSE "cycle_end"

\* Where a context goes when its cycle raised: the cycle is over (_run logs
\* the exception, lines 113-114; a direct caller gets it).
AfterRaise(x) == "cycle_end"

\* A failed POST sent again at once.
AfterPostRetry(x, delivered) == IF ~delivered THEN "post" ELSE "cycle_end"

\* Where a context goes when its POST is over, delivered or not: the cycle is
\* over (lines 226-244).
AfterPost(x, delivered) == "cycle_end"

\* _process_room_type up to the POST (lines 156-219), run by context x on the
\* value raw of the Variable Source.
RunCycle(x, raw) ==
    /\ pc[x] = "proc"
    /\ LET r == ProcessRoomType(base_url, raw, clock, room_history,
                                posted_room_types, refresh_interval)
       IN  /\ room_history' = r.history
           /\ payload' = [payload EXCEPT ![x] = r.payload]
           /\ pc' = [pc EXCEPT ![x] = IF r.raised THEN AfterRaise(x)
                                      ELSE IF r.result = "posting" THEN "post"
                                      ELSE "cycle_end"]
           /\ last' = [read |-> r.read, result |-> r.result,
                       pruned |-> IF r.history = room_history THEN 0
                                  ELSE Len(room_history) + 1 - Len(r.history),
                       posts |-> 0]
    /\ UNCHANGED <<base_url, refresh_interval, stop_event, thread,
                   posted_room_types, clock, wake_at, saw_stop, ok_posts,
                   failed_posts>>

\* A cycle that leaves a window of at most MaxHistory samples.
Cycle(x, raw) ==
    /\ pc[x] = "proc"
    /\ Len(ProcessRoomType(base_url, raw, clock, room_history,
                           posted_room_types, refresh_interval).history) <= MaxHistory
    /\ RunCycle(x, raw)

\* The POST and its handling (lines 221-244).
Post(x, outcome) ==
    /\ pc[x] = "post"
    /\ LET label == payload[x].label
           ok == outcome.kind = "status" /\ 200 <= outcome.code /\ outcome.code < 300
       IN  /\ posted_room_types' = IF Delivered(outcome)
                                   THEN posted_room_types \cup {label}
                                   ELSE posted_room_types
           /\ ok_posts' = IF ok THEN ok_posts \cup {label} ELSE ok_posts
           /\ failed_posts' = IF ok THEN failed_posts ELSE failed_posts \cup {label}
           /\ pc' = [pc EXCEPT ![x] = AfterPost(x, Delivered(outcome))]
           /\ last' = [last EXCEPT !.result = IF ok THEN "post_ok" ELSE "post_failed",
                                   !.posts = IF @ < 2 THEN @ + 1 ELSE @]
    /\ UNCHANGED <<base_url, refresh_interval, stop_event, thread, room_history,
                   clock, payload, wake_at, saw_stop>>

\* The cycle is over: a task goes to its interval wait (line 117), a direct
\* call returns.
EndCycle(x) ==
    /\ pc[x] = "cycle_end"
    /\ pc' = [pc EXCEPT ![x] = IF x \in Threads THEN "wait" ELSE "idle"]
    /\ wake_at' = IF x \in Threads
                  THEN [wake_at EXCEPT ![x] = clock + refresh_interval]
                  ELSE wake_at
    /\ payload' = [payload EXCEPT ![x] = NoPayload]
    /\ last' = NoCycle
    /\ UNCHANGED <<base_url, refresh_interval, stop_event, thread, room_history,
                   posted_room_types, clock, saw_stop, ok_posts, failed_posts>>

\* _run, line 117: self._stop_event.wait(timeout=self.refresh_interval) returns
WaitReturn(t) ==
    /\ pc[t] = "wait"
    /\ stop_event \/ clock >= wake_at[t]
    /\ pc' = [pc EXCEPT ![t] = "loop"]
    /\ saw_stop' = [saw_stop EXCEPT ![t] = stop_event]
    /\ wake_at' = [wake_at EXCEPT ![t] = 0]
    /\ UNCHANGED <<base_url, refresh_interval, stop_event, thread, room_history,
                   posted_room_types, clock, payload, ok_posts, failed_posts,
                   last>>

\* A direct call of _process_room_type by a caller
DirectCall(c) ==
    /\ pc[c] = "idle"
    /\ pc' = [pc EXCEPT ![c] = "proc"]
    /\ UNCHANGED <<base_url, refresh_interval, stop_event, thread, room_history,
                   posted_room_types, clock, payload, wake_at, saw_stop,
                   ok_posts, failed_posts, last>>

\* A direct call when no call is in progress, on a provider that has no
\* endpoint: start() creates no task there, so a direct call is what reaches
\* line 156 with an empty base_url.
CallProcess(c) == NoCallInProgress /\ base_url = "" /\ DirectCall(c)

\* The steps of the callers
CallerStep ==
    \/ \E c \in MainCallers : StartCheck(c)
    \/ \E c \in MainCallers : StartReturn(c)
    \/ \E c \in MainCallers : StartClear(c)
    \/ \E c \in MainCallers : StartSpawn(c)
    \/ \E c \in MainCallers : StopSet(c)
    \/ \E c \in MainCallers : StopJoin(c)
    \/ \E c \in MainCallers : CallProcess(c)

\* The steps of the contexts that run a cycle
CycleStep ==
    \/ \E t \in Threads : LoopCheck(t)
    \/ \E x \in Contexts, raw \in RawInputs : Cycle(x, raw)
    \/ \E x \in Contexts, outcome \in PostOutcomes : Post(x, outcome)
    \/ \E x \in Contexts : EndCycle(x)
    \/ \E t \in Threads : WaitReturn(t)

Next == Tick \/ CallerStep \/ CycleStep

Spec == Init /\ [][Next]_vars

\* The steps of task t
TaskStep(t) ==
    \/ LoopCheck(t)
    \/ \E raw \in RawInputs : Cycle(t, raw)
    \/ \E outcome \in PostOutcomes : Post(t, outcome)
    \/ EndCycle(t)
    \/ WaitReturn(t)

\* The scheduler runs every task that can take a step, and the task's read
\* and POST return.
LiveNext == (clock < LiveMaxTime /\ Tick) \/ CallerStep \/ CycleStep

LiveSpec ==
    Init /\ [][LiveNext]_vars /\ \A t \in Threads : WF_vars(TaskStep(t))

(* ------------------------------------------------------------- scenarios *)

\* refresh_interval: int = 5, the interval of the scenarios
ScenarioInterval == 5

\* The provider of the scenarios: the default endpoint, the interval 5 s, and
\* with it the window 30 s and the stability period 15 s.
ScenarioInit == InitWith(DefaultUrl, ScenarioInterval)

\* Time passes at the cadence of the scenarios: a task's wait returns at most
\* MaxOverrun seconds after its timeout.
ScenarioTick ==
    /\ clock < ScenarioMaxTime
    /\ \A t \in Threads : pc[t] = "wait" => clock < wake_at[t] + MaxOverrun
    /\ Advance

\* The endpoint answers 2xx.
OkOutcomes == {outcome \in PostOutcomes : Delivered(outcome)}

\* What the Variable Source holds in scenario A, cycle by cycle
ScenarioAFeed == <<KITCHEN, KITCHEN, KITCHEN, KITCHEN, BEDROOM>>

\* A cycle of scenario A.  Every cycle of the scenario takes a sample and none
\* leaves the window, so the window's length is the number of cycles run.
ScenarioACycle(t) ==
    /\ Len(room_history) < Len(ScenarioAFeed)
    /\ RunCycle(t, RawValue("str", ScenarioAFeed[Len(room_history) + 1]))

\* Scenario A: start() is called, the task runs its cycles on the feed.
ScenarioANext ==
    \/ ScenarioTick
    \/ \E c \in MainCallers : StartCheck(c)
    \/ \E c \in MainCallers : StartReturn(c)
    \/ \E c \in MainCallers : StartClear(c)
    \/ \E c \in MainCallers : StartSpawn(c)
    \/ \E t \in Threads : LoopCheck(t)
    \/ \E t \in Threads : ScenarioACycle(t)
    \/ \E t \in Threads, outcome \in OkOutcomes : Post(t, outcome)
    \/ \E t \in Threads : EndCycle(t)
    \/ \E t \in Threads : WaitReturn(t)

ScenarioASpec == ScenarioInit /\ [][ScenarioANext]_vars

\* What the Variable Source holds in scenario B when the window is h: kitchen
\* first, then the label the newest sample does not have.  The newest sample
\* is the previous cycle's, every cycle of the scenario taking one.
ScenarioBFeed(h) ==
    IF h = <<>> THEN KITCHEN
    ELSE IF h[Len(h)][2] = KITCHEN THEN BEDROOM ELSE KITCHEN

\* A cycle of scenario B
ScenarioBCycle(t) == RunCycle(t, RawValue("str", ScenarioBFeed(room_history)))

\* Scenario B: start() is called, the task runs its cycles on the alternating
\* feed.  No cycle of the scenario goes on to a POST, so there is no POST
\* step to take.
ScenarioBNext ==
    \/ ScenarioTick
    \/ \E c \in MainCallers : StartCheck(c)
    \/ \E c \in MainCallers : StartReturn(c)
    \/ \E c \in MainCallers : StartClear(c)
    \/ \E c \in MainCallers : StartSpawn(c)
    \/ \E t \in Threads : LoopCheck(t)
    \/ \E t \in Threads : ScenarioBCycle(t)
    \/ \E t \in Threads : EndCycle(t)
    \/ \E t \in Threads : WaitReturn(t)

ScenarioBSpec == ScenarioInit /\ [][ScenarioBNext]_vars

(* ------------------------------------------- one cycle, from any window *)

\* The labels of the drawn windows
WindowLabels == {KITCHEN, BEDROOM}

\* The windows of at most n samples the provider can hold at time now, its
\* interval ri: the samples were appended at line 168 by cycles at least ri
\* apart, oldest first, none later than now, and the prune of the cycle that
\* appended the newest (lines 171-173) left none older than the window's
\* length before it.  Cycles without a sample may have followed, so the
\* window may hold samples that are stale at now.
RECURSIVE Windows(_, _, _)
Windows(ri, now, n) ==
    IF n = 0 THEN {<<>>}
    ELSE LET shorter == Windows(ri, now, n - 1)
             samples == (0..now) \X WindowLabels
             fits(h, s) ==
                 \/ h = <<>>
                 \/ /\ h[Len(h)][1] + ri <= s[1]
                    /\ s[1] - room_window_seconds(ri) <= h[1][1]
         IN  shorter \cup
                 {Append(p[1], p[2]) : p \in {q \in shorter \X samples : fits(q[1], q[2])}}

\* A provider that start() has started, its task at the loop condition, at
\* time now, with window h and Delivery Record posted.
Running(ri, now, h, posted) ==
    /\ base_url = DefaultUrl
    /\ refresh_interval = ri
    /\ stop_event = FALSE
    /\ thread = 1
    /\ room_history = h
    /\ posted_room_types = posted
    /\ clock = now
    /\ pc = [x \in Contexts |-> IF x = 1 THEN "loop"
                                ELSE IF x \in Threads THEN "unborn" ELSE "idle"]
    /\ payload = [x \in Contexts |-> NoPayload]
    /\ wake_at = [t \in Threads |-> 0]
    /\ saw_stop = [t \in Threads |-> FALSE]
    /\ ok_posts = posted
    /\ failed_posts = {}
    /\ last = NoCycle

WindowInit ==
    \E ri \in 1..MaxRefresh, now \in 0..WindowMaxTime :
        \E h \in Windows(ri, now, WindowMaxLen), posted \in SUBSET WindowLabels :
            Running(ri, now, h, posted)

\* One cycle of the task, on any value of the Variable Source and with any
\* outcome of the POST, up to the interval wait.
WindowNext ==
    \/ \E t \in Threads : LoopCheck(t)
    \/ \E t \in Threads, raw \in RawInputs : RunCycle(t, raw)
    \/ \E t \in Threads, outcome \in PostOutcomes : Post(t, outcome)
    \/ \E t \in Threads : EndCycle(t)

WindowSpec == WindowInit /\ [][WindowNext]_vars

(* ----------------------------------------------------- concurrent callers *)

\* The provider of the specification with concurrent callers: the default
\* endpoint and the shortest interval.
ConcInit == InitWith(DefaultUrl, 1)

\* What the Variable Source holds there: nothing, or kitchen.
ConcInputs == {RawValue("none", <<>>), RawValue("str", KITCHEN)}

ConcTick == clock < ConcMaxTime /\ Advance

\* A cycle that leaves a window of at most ConcMaxHistory samples.
ConcCycle(x, raw) ==
    /\ pc[x] = "proc"
    /\ Len(ProcessRoomType(base_url, raw, clock, room_history,
                           posted_room_types, refresh_interval).history)
            <= ConcMaxHistory
    /\ RunCycle(x, raw)

\* Every caller thread calls start(), stop() and _process_room_type whenever
\* it is not inside a call, whatever the other callers and the tasks are
\* doing; the endpoint answers 2xx.
ConcNext ==
    \/ ConcTick
    \/ \E c \in Callers : StartEnter(c)
    \/ \E c \in Callers : StartReturn(c)
    \/ \E c \in Callers : StartClear(c)
    \/ \E c \in Callers : StartSpawn(c)
    \/ \E c \in Callers : StopSignal(c)
    \/ \E c \in Callers : StopJoin(c)
    \/ \E c \in Callers : DirectCall(c)
    \/ \E t \in Threads : LoopCheck(t)
    \/ \E x \in Contexts, raw \in ConcInputs : ConcCycle(x, raw)
    \/ \E x \in Contexts, outcome \in OkOutcomes : Post(x, outcome)
    \/ \E x \in Contexts : EndCycle(x)
    \/ \E t \in Threads : WaitReturn(t)

ConcSpec == ConcInit /\ [][ConcNext]_vars

(* ---------------------------------------------------------------- claims *)

\* The label a context is about to POST
Posting(x) == payload[x].label

\* The timestamps of the samples of label l in window h
TimesOf(h, l) == {h[i][1] : i \in {j \in 1..Len(h) : h[j][2] = l}}

\* The timestamp of the earliest sample of label l in window h
Earliest(h, l) == CHOOSE m \in TimesOf(h, l) : \A u \in TimesOf(h, l) : m <= u

\* C1: at-most-once delivery after success.  Once a POST of label L has been
\* answered with a status in [200,300), no context ever stands at a POST of L
\* again, however often later cycles reconfirm L.
C1_AtMostOnceAfterSuccess ==
    \A x \in Contexts : pc[x] = "post" => Posting(x) \notin ok_posts

\* A cycle has reconfirmed a delivered label and returned at the gate.
C1_Witness ==
    /\ last.result = "already_posted"
    /\ ok_posts # {}
    /\ \E t \in Threads : pc[t] = "cycle_end"

\* C2: a failed delivery leaves the label eligible.  A POST that ends with a
\* status outside [200,300), a timeout or an exception leaves the Delivery
\* Record as it was; a cycle makes at most one POST; and a later cycle that
\* takes a sample and confirms a label whose POST failed, the label still not
\* in the record, goes on to POST that label.
C2_FailedDeliveryStaysEligible ==
    [][ /\ (last'.result = "post_failed" /\ last.result # "post_failed")
            => posted_room_types' = posted_room_types
        /\ last'.posts <= 1
        /\ \A x \in Contexts :
            (pc[x] = "proc" /\ pc'[x] # "proc" /\ room_history' # room_history)
            => \A l \in failed_posts \ posted_room_types :
                ( /\ Count(room_history', l) * 10 >= 7 * Len(room_history')
                  /\ Earliest(room_history', l) <= clock - 3 * refresh_interval )
                => (pc'[x] = "post" /\ Posting(x)' = l)
      ]_vars

\* A label whose POST failed is at its POST again.
C2_Witness ==
    \E x \in Contexts :
        /\ pc[x] = "post"
        /\ Posting(x) \in failed_posts
        /\ Posting(x) \notin posted_room_types

\* C3: the majority guard.  A context stands at a POST only of a label whose
\* count is the highest in the window and is at least 0.7 of the window's size.
C3_MajorityGuard ==
    \A x \in Contexts : pc[x] = "post" =>
        /\ room_history # <<>>
        /\ \A i \in 1..Len(room_history) :
            Count(room_history, room_history[i][2]) <= Count(room_history, Posting(x))
        /\ Count(room_history, Posting(x)) * 10 >= 7 * Len(room_history)

\* A label is at its POST with three of the four samples of the window.
C3_Witness ==
    \E x \in Contexts :
        /\ pc[x] = "post"
        /\ Len(room_history) = 4
        /\ Count(room_history, Posting(x)) = 3

\* C4: the stability guard.  A context stands at a POST of label L only when
\* the earliest sample of L in the window, as the cycle's prune left it, is at
\* least 3 x refresh_interval older than the cycle's now (the timestamp of the
\* sample the cycle appended).
C4_StabilityGuard ==
    \A x \in Contexts : pc[x] = "post" =>
        /\ room_history # <<>>
        /\ room_history[Len(room_history)][1] = clock
        /\ TimesOf(room_history, Posting(x)) # {}
        /\ Earliest(room_history, Posting(x)) <= clock - 3 * refresh_interval

\* A label is at its POST in a window the prune has cut, its earliest sample
\* exactly 3 x refresh_interval old.
C4_Witness ==
    \E x \in Contexts :
        /\ pc[x] = "post"
        /\ last.pruned > 0
        /\ Earliest(room_history, Posting(x)) = clock - 3 * refresh_interval

\* C5: the whitelist.  Every label in the window, every label at a POST or
\* ever POSTed, and every label of the Delivery Record is one of the five
\* allowed labels.
C5_Whitelist ==
    /\ \A i \in 1..Len(room_history) : room_history[i][2] \in allowed_room_types
    /\ posted_room_types \subseteq allowed_room_types
    /\ ok_posts \cup failed_posts \subseteq allowed_room_types
    /\ \A x \in Contexts : pc[x] = "post" => Posting(x) \in allowed_room_types

\* A cycle has rejected a value that is not an allowed label, the window
\* holding samples.
C5_Witness ==
    /\ last.result = "rejected"
    /\ room_history # <<>>
    /\ \E t \in Threads : pc[t] = "cycle_end"

\* The steps in which caller c enters start()
EntersStart(c) ==
    pc[c] = "idle" /\ pc'[c] \in {"start_warn", "start_error", "start_clear"}

\* What start() leaves alone when it returns early: the tasks, self._thread,
\* the stop signal, the window and the Delivery Record
StartLeavesAlone ==
    /\ thread' = thread
    /\ stop_event' = stop_event
    /\ \A t \in Threads : pc'[t] = pc[t]
    /\ room_history' = room_history
    /\ posted_room_types' = posted_room_types

\* C6: idempotent start.  A start() called while the task of self._thread is
\* alive takes the early return of line 80: it creates no task, does not clear
\* the stop signal and leaves self._thread as it was, that task being the one
\* task alive; and under sequential calls there is never more than one task
\* alive.
C6_IdempotentStart ==
    [][ /\ \A c \in Callers :
            /\ (EntersStart(c) /\ thread # 0 /\ pc[thread] \notin {"unborn", "done"})
                => /\ pc'[c] = "start_warn"
                   /\ StartLeavesAlone
                   /\ AliveThreads' = {thread}
            /\ (pc[c] = "start_warn" /\ pc'[c] # "start_warn")
                => (pc'[c] = "idle" /\ StartLeavesAlone)
        /\ Cardinality(AliveThreads') <= 1
      ]_vars

\* start() has been called on a running provider and is at its early return.
C6_Witness ==
    \E c \in Callers :
        /\ pc[c] = "start_warn"
        /\ AliveThreads = {thread}

\* C7: a missing endpoint prevents the start.  With an empty base_url, start()
\* takes the early return of line 87 and changes nothing, no task ever exists,
\* and a run of _process_room_type returns at line 158: it does not call the
\* Variable Source, leaves the window and the Delivery Record alone and makes
\* no POST.
C7_MissingEndpoint ==
    [][ base_url = "" =>
        /\ \A c \in Callers :
            /\ EntersStart(c) => (pc'[c] = "start_error" /\ StartLeavesAlone)
            /\ (pc[c] = "start_error" /\ pc'[c] # "start_error")
                => (pc'[c] = "idle" /\ StartLeavesAlone)
        /\ \A t \in Threads : pc'[t] = "unborn"
        /\ thread' = 0
        /\ \A x \in Contexts :
            (pc[x] = "proc" /\ pc'[x] # "proc")
            => /\ pc'[x] = "cycle_end"
               /\ last'.read = FALSE
               /\ last'.posts = 0
               /\ room_history' = room_history
               /\ posted_room_types' = posted_room_types
               /\ ok_posts' = ok_posts
               /\ failed_posts' = failed_posts
      ]_vars

\* _process_room_type has run on a provider without endpoint, after a stop().
C7_Witness ==
    /\ base_url = ""
    /\ stop_event
    /\ last.result = "no_url"
    /\ \E c \in Callers : pc[c] = "cycle_end"

\* C8: the loop survives a failing cycle.  A task leaves _run only from the
\* loop condition, with the stop signal set; a cycle that raised ends like any
\* other, at the interval wait; and from the loop condition with the signal
\* clear the task runs the next cycle.
C8_LoopSurvives ==
    [][ \A t \in Threads :
        /\ (pc'[t] = "done" /\ pc[t] # "done") => (pc[t] = "loop" /\ stop_event)
        /\ (pc[t] = "proc" /\ pc'[t] # "proc") => pc'[t] \in {"post", "cycle_end"}
        /\ (pc[t] = "post" /\ pc'[t] # "post") => pc'[t] = "cycle_end"
        /\ (pc[t] = "cycle_end" /\ pc'[t] # "cycle_end") => pc'[t] = "wait"
        /\ (pc[t] = "wait" /\ pc'[t] # "wait") => pc'[t] = "loop"
        /\ (pc[t] = "loop" /\ pc'[t] # "loop" /\ ~stop_event) => pc'[t] = "proc"
      ]_vars

\* A cycle of a task has raised, and the task is alive.
C8_Witness ==
    \E t \in Threads :
        /\ pc[t] = "cycle_end"
        /\ last.result = "raised"

\* C9: stop terminates the loop.  With the stop signal set, a task that is
\* alive reaches the end of _run (its read and POST returning, the scheduler
\* fair); and a task begins a cycle only from a loop condition that found the
\* signal clear, never after its wait returned with the signal set: once the
\* signal is set the task finishes the cycle it is in and begins no other.
C9_StopTerminates ==
    /\ \A t \in Threads :
        (stop_event /\ pc[t] \in {"loop", "proc", "post", "cycle_end", "wait"})
            ~> (pc[t] = "done")
    /\ [][ \A t \in Threads :
            /\ (pc[t] = "loop" /\ pc'[t] = "proc") => (~stop_event /\ ~saw_stop[t])
            /\ (pc[t] # "loop" /\ pc'[t] # pc[t]) => pc'[t] # "proc"
         ]_vars

\* A task has ended while stop() waits in its join, the task's last wait
\* having returned with the signal set.
C9_Witness ==
    \E c \in Callers :
        /\ pc[c] = "stop_join"
        /\ thread # 0
        /\ pc[thread] = "done"
        /\ stop_event

\* C10: the Delivery Record only grows, and by a delivered label only.  No
\* step removes a label; a step that adds one is the POST of exactly that
\* label, answered with a status in [200,300).
C10_RecordOnlyGrows ==
    [][ /\ posted_room_types \subseteq posted_room_types'
        /\ posted_room_types' # posted_room_types =>
            \E x \in Contexts :
                /\ pc[x] = "post"
                /\ posted_room_types' = posted_room_types \cup {Posting(x)}
                /\ last'.result = "post_ok"
                /\ Posting(x) \in ok_posts'
      ]_vars

\* The record holds a label while the task of a second start() runs.
C10_Witness ==
    /\ posted_room_types # {}
    /\ thread = 2
    /\ pc[2] = "proc"
    /\ pc[1] = "done"

\* C11: scenario A.  With the interval 5 s (window 30 s, stability 15 s), an
\* empty window and record and an endpoint that answers 2xx, kitchen fed on
\* four consecutive cycles and bedroom on the fifth: the only POST of the run
\* is one POST of kitchen, made with no POST before it; no POST fails and
\* bedroom is never POSTed; and the fifth cycle, the bedroom sample in the
\* window, confirms kitchen again and returns at the gate, kitchen delivered.
C11_ScenarioA ==
    /\ [](/\ failed_posts = {}
          /\ ok_posts \subseteq {KITCHEN}
          /\ posted_room_types = ok_posts
          /\ last.pruned = 0
          /\ \A x \in Contexts : pc[x] = "post" => Posting(x) = KITCHEN
          /\ Len(room_history) = 5 =>
                /\ room_history[5][2] = BEDROOM
                /\ ok_posts = {KITCHEN}
                /\ \A x \in Contexts : pc[x] # "post"
                /\ last.result \in {"already_posted", "none"})
    /\ [][ \A x \in Contexts :
            (pc[x] # "post" /\ pc'[x] = "post") => (ok_posts = {} /\ last.posts = 0)
         ]_vars

\* The fifth cycle of scenario A is over: it took the bedroom sample and
\* returned at the gate, kitchen in the Delivery Record.
C11_Witness ==
    /\ refresh_interval = 5
    /\ Len(room_history) = 5
    /\ room_history[5][2] = BEDROOM
    /\ Count(room_history, KITCHEN) = 4
    /\ last.result = "already_posted"
    /\ posted_room_types = {KITCHEN}

\* C12: scenario B.  With the interval 5 s (window 30 s, stability 15 s) and an
\* empty window, kitchen and bedroom fed in strict alternation: no cycle
\* confirms a label and no context ever stands at a POST.  Every cycle with a
\* sample returns at the majority test, or, the first cycle, whose window of one
\* sample passes that test, at the stability test.
C12_ScenarioB ==
    /\ \A x \in Contexts : pc[x] # "post"
    /\ ok_posts = {} /\ failed_posts = {} /\ posted_room_types = {}
    /\ \A i \in 1..(Len(room_history) - 1) :
          room_history[i][2] # room_history[i + 1][2]
    /\ last.result \in {"none", "no_majority", "not_stable"}
    /\ last.result = "not_stable" => Len(room_history) = 1
    /\ last.result = "no_majority" => Len(room_history) >= 2

\* A cycle of scenario B has pruned the window to seven alternating samples
\* and found no majority.
C12_Witness ==
    /\ refresh_interval = 5
    /\ Len(room_history) = 7
    /\ last.pruned > 0
    /\ last.result = "no_majority"
    /\ Count(room_history, KITCHEN) \in {3, 4}
    /\ Count(room_history, BEDROOM) \in {3, 4}

\* The steps in which context x runs its cycle and takes a sample
TakesSample(x) ==
    pc[x] = "proc" /\ pc'[x] # "proc" /\ room_history' # room_history

\* The window of a cycle that takes a sample, after the append of line 168 and
\* before the prune: the new window's newest sample is the one appended.
Appended == Append(room_history, room_history'[Len(room_history')])

\* C13: pruning is exact and idempotent.  In a cycle that takes a sample at
\* time now, the prune removes a prefix of the window, every removed sample
\* has a timestamp < now - window_horizon, every sample left has a timestamp
\* >= that cutoff (one exactly at the cutoff stays), the samples left keep
\* their order, and the prune run again with the same now removes nothing.
C13_PruneExact ==
    [][ \A x \in Contexts : TakesSample(x) =>
          LET cutoff == clock - 6 * refresh_interval
              removed == Len(Appended) - Len(room_history')
          IN  /\ room_history' # <<>>
              /\ room_history'[Len(room_history')][1] = clock
              /\ removed >= 0
              /\ room_history' = SubSeq(Appended, removed + 1, Len(Appended))
              /\ \A i \in 1..removed : Appended[i][1] < cutoff
              /\ \A i \in 1..Len(room_history') : room_history'[i][1] >= cutoff
              /\ Prune(room_history', cutoff) = room_history'
              /\ last'.pruned = removed
      ]_vars

\* A prune has removed two samples and left one whose timestamp is exactly the
\* cutoff.
C13_Witness ==
    /\ last.pruned >= 2
    /\ Len(room_history) >= 2
    /\ room_history[1][1] = clock - 6 * refresh_interval
    /\ room_history[Len(room_history)][1] = clock

\* The cycle in progress has tallied the vote (line 179).
Tallied ==
    last.result \in {"no_majority", "not_stable", "already_posted", "posting"}

\* C14: the window is fresh when the vote is tallied.  In a cycle that has
\* tallied, the window is not empty, its samples are in ascending order of
\* timestamp, and none is older than now - window_horizon, however stale the
\* window was when the cycle began (cycles without a sample do not prune);
\* the total and the winner's count of a payload are counts over that window.
C14_WindowFresh ==
    Tallied =>
        /\ room_history # <<>>
        /\ \A i \in 1..Len(room_history) :
              /\ room_history[i][1] >= clock - 6 * refresh_interval
              /\ room_history[i][1] <= clock
        /\ \A i \in 1..(Len(room_history) - 1) :
              room_history[i][1] <= room_history[i + 1][1]
        /\ \A x \in Contexts : pc[x] = "post" =>
              /\ payload[x].total = Len(room_history)
              /\ payload[x].winner_count = Count(room_history, Posting(x))

\* A cycle that began with two stale samples in the window has tallied over
\* what its prune left.
C14_Witness ==
    /\ Tallied
    /\ last.pruned = 2
    /\ Len(room_history) = 2
    /\ room_history[1][1] < room_history[2][1]

\* The ways a cycle has no sample: the read raised, the value is unset or
\* empty, the value is not an allowed label.
NoSample == {"read_error", "unset", "rejected"}

\* Label l would be confirmed by a vote over the window as it is, and is not
\* in the Delivery Record.
WouldConfirm(l) ==
    /\ room_history # <<>>
    /\ \A i \in 1..Len(room_history) :
          room_history[i][1] >= clock - 6 * refresh_interval
    /\ Count(room_history, l) * 10 >= 7 * Len(room_history)
    /\ Earliest(room_history, l) <= clock - 3 * refresh_interval
    /\ l \notin posted_room_types

\* C18: a cycle without a valid sample is a no-op.  A cycle whose read raised
\* or gave an unset, empty or not allowed value leaves the window (no append,
\* no prune) and the Delivery Record as they were and ends without a POST;
\* and no cycle that leaves the window as it was goes on to a POST, whatever
\* the window holds.
C18_NoSampleNoOp ==
    [][ \A x \in Contexts : (pc[x] = "proc" /\ pc'[x] # "proc") =>
          /\ last'.result \in NoSample =>
                /\ last'.read
                /\ room_history' = room_history
                /\ posted_room_types' = posted_room_types
                /\ ok_posts' = ok_posts /\ failed_posts' = failed_posts
                /\ pc'[x] = "cycle_end"
                /\ payload'[x] = NoPayload
                /\ last'.posts = 0 /\ last'.pruned = 0
          /\ room_history' = room_history =>
                (pc'[x] = "cycle_end" /\ last'.result \in NoSample \cup {"raised", "no_url"})
      ]_vars

\* A cycle without a sample is over, the window holding a label that a vote
\* would confirm and that is not delivered.
C18_Witness ==
    /\ last.result \in NoSample
    /\ \E x \in Contexts : pc[x] = "cycle_end"
    /\ \E l \in allowed_room_types : WouldConfirm(l)

\* The labels that have a sample in window h
LabelsOf(h) == {h[i][2] : i \in 1..Len(h)}

\* C19: confirmation does not depend on the tie-break.  A context stands at a
\* POST only of a label whose count in the window is strictly greater than
\* the count of every other label: no label ties with it, so no order of
\* resolving equal counts gives another winner.
C19_StrictWinner ==
    \A x \in Contexts : pc[x] = "post" =>
        /\ Posting(x) \in LabelsOf(room_history)
        /\ \A l \in LabelsOf(room_history) \ {Posting(x)} :
              Count(room_history, l) < Count(room_history, Posting(x))
        /\ 2 * Count(room_history, Posting(x)) > Len(room_history)

\* A label is at its POST in a window whose oldest sample has another label,
\* the first key of the Counter.
C19_Witness ==
    \E x \in Contexts :
        /\ pc[x] = "post"
        /\ Cardinality(LabelsOf(room_history)) = 2
        /\ FirstSeen(room_history)[1] # Posting(x)

\* While the clock has not passed the window's length no prune has removed a
\* sample, and the window is the list of all samples taken, in the order of
\* the cycles that took them: the cycle that took sample i tallied over the
\* first i samples.
TallyOf(i) == SubSeq(room_history, 1, i)

\* C17 as claimed: sustained majority before confirmation.  A context stands at
\* a POST of label L only if, in every cycle that took a sample during the
\* 3 x refresh_interval seconds before, L was the winner of that cycle's tally
\* with at least 0.7 of it.
C17_SustainedMajority ==
    \A x \in Contexts :
        (pc[x] = "post" /\ clock <= 6 * refresh_interval) =>
            \A i \in 1..Len(room_history) :
                room_history[i][1] > clock - 3 * refresh_interval =>
                    /\ Winner(TallyOf(i)) = Posting(x)
                    /\ Count(TallyOf(i), Posting(x)) * 10 >= 7 * i

\* C17, amended: presence, not majority, before confirmation.  A context
\* stands at a POST of label L only if L holds at least 0.7 of the window in
\* the confirming cycle's tally and a sample of L at least 3 x refresh_interval
\* old is in the window; that sample was in the window of every cycle that
\* took a sample since, so L was present in each of those tallies, winner or
\* not.
C17_PresentBeforeConfirmation ==
    \A x \in Contexts : pc[x] = "post" =>
        /\ Count(room_history, Posting(x)) * 10 >= 7 * Len(room_history)
        /\ \E j \in 1..Len(room_history) :
              /\ room_history[j][2] = Posting(x)
              /\ room_history[j][1] <= clock - 3 * refresh_interval
              /\ \A i \in 1..Len(room_history) :
                    room_history[i][1] > clock - 3 * refresh_interval =>
                        /\ j < i
                        /\ room_history[j][1] >= room_history[i][1] - 6 * refresh_interval

\* A label is at its POST though a cycle of the last 3 x refresh_interval
\* seconds tallied it below 0.7.
C17_Witness ==
    \E x \in Contexts :
        /\ pc[x] = "post"
        /\ clock <= 6 * refresh_interval
        /\ \E i \in 1..Len(room_history) :
              /\ room_history[i][1] > clock - 3 * refresh_interval
              /\ Count(TallyOf(i), Posting(x)) * 10 < 7 * i

\* The steps in which caller c returns from start() on a provider that has an
\* endpoint: the early return of line 80, or the end of the call (line 95)
StartReturns(c) ==
    /\ base_url # ""
    /\ pc[c] \in {"start_warn", "start_spawn"}
    /\ pc'[c] = "idle"

\* C20: start() leaves the provider running.  When start() returns on a
\* provider with a non-empty base_url, the task of self._thread is alive and
\* the stop signal is clear.
C20_StartLeavesRunning ==
    [][ \A c \in Callers : StartReturns(c) =>
          /\ thread' # 0
          /\ Alive(pc'[thread'])
          /\ ~stop_event'
      ]_vars

\* Context x is inside _process_room_type
InCycle(x) == pc[x] \in {"proc", "post", "cycle_end"}

\* C15: no parallel cycles.  Whatever the caller threads do with start() and
\* stop(), at most one background task is alive, and no two tasks are inside
\* _process_room_type at once.
C15_NoParallelCycles ==
    /\ Cardinality(AliveThreads) <= 1
    /\ \A t \in Threads, u \in Threads : (InCycle(t) /\ InCycle(u)) => t = u

\* C16: the test-and-set of the Delivery Gate is mutually exclusive.  With an
\* endpoint that answers 2xx, no two contexts stand at a POST of the same
\* label at once, and none stands at a POST of a label already delivered: a
\* label is POSTed at most once in total.
C16_GateTestAndSet ==
    /\ \A x \in Contexts, y \in Contexts :
          (pc[x] = "post" /\ pc[y] = "post" /\ Posting(x) = Posting(y)) => x = y
    /\ \A x \in Contexts :
          (pc[x] = "post" /\ failed_posts = {}) => Posting(x) \notin ok_posts

====
